---------------------------- MODULE Spec2Model ----------------------------
(***************************************************************************)
(* Merchant withdrawal report server: the upload and generate handlers of  *)
(* src/server.js, the Date Normalizer they share, and the earlier handler  *)
(* lineages kept in src/models/UploadedFile.js.                            *)
(*                                                                         *)
(* Representation.                                                         *)
(*  - A day string 'YYYY-MM-DD' is the integer YYYY*10000 +      *)
(*    MM*100 + DD; the empty string '' is 0.  For four-digit years the     *)
(*    integer order is the lexical order of the zero-padded strings, and   *)
(*    '' sorts below every day string as 0 sorts below every day integer.  *)
(*  - A cell value or a request string is a tagged record: a number, or a  *)
(*    string given by the form of its text (DD-MM-YYYY, YYYY-MM-DD, or     *)
(*    text that is no date).                                               *)
(*  - A sheet row is a function from the column names that are present in  *)
(*    the row to their values, as sheet_to_json builds it.                 *)
(*  - Money is fixed point: an amount is an integer count of thousandths,  *)
(*    a percent an integer count of tenths of a percent, so that           *)
(*    withdrawal * percent / 100 is an integer count of millionths.        *)
(***************************************************************************)
EXTENDS Integers, Sequences, FiniteSets, TLC

VARIABLES
    globalDataMap,  \* src/server.js:40   panel -> stored rows
    res,            \* the request src/server.js has handled and not yet answered:
                    \* what the handler wrote to the output directory and to
                    \* the database, and the response it is sending
    globalDataMapById,  \* src/models/UploadedFile.js:256   the store of the
                    \* handlers that select the panel by the query parameter `id`
    resById,        \* the request those handlers have handled and not yet answered
    globalData,     \* src/models/UploadedFile.js:64   the one dataset of the
                    \* handlers that know no panels
    resSingle,      \* the request those handlers have handled and not yet answered
    value,          \* the Date Normalizer's argument
    result          \* the Date Normalizer's outcome

vars == <<globalDataMap, res, globalDataMapById, resById, globalData, resSingle,
          value, result>>

---------------------------------------------------------------------------
(* Bounds of the model *)

\* longest sheet an upload carries
MaxRows == 2
\* numeric serials run over 0..MaxSerial and over the same span after SerialBase
MaxSerial == 70
\* first serial of the modern span (a day of 2023)
SerialBase == 45000

---------------------------------------------------------------------------
(* Calendar arithmetic of the JavaScript Date object.  Every time value of  *)
(* the model is a UTC midnight, so a time value is counted in whole days    *)
(* since 1970-01-01 (86400000 ms each) rather than in milliseconds.         *)

\* Date.UTC(y, m, d) in days since 1970-01-01 (proleptic Gregorian calendar)
DaysFromCivil(y, m, d) ==
    LET yy  == IF m <= 2 THEN y - 1 ELSE y
        era == yy \div 400
        yoe == yy - era * 400
        mp  == IF m > 2 THEN m - 3 ELSE m + 9
        doy == (153 * mp + 2) \div 5 + d - 1
        doe == yoe * 365 + yoe \div 4 - yoe \div 100 + doy
    IN  era * 146097 + doe - 719468

\* the year, month and day of a time value given in whole days since 1970-01-01
CivilFromDays(z) ==
    LET zz  == z + 719468
        era == zz \div 146097
        doe == zz - era * 146097
        yoe == (doe - doe \div 1460 + doe \div 36524 - doe \div 146096) \div 365
        doy == doe - (365 * yoe + yoe \div 4 - yoe \div 100)
        mp  == (5 * doy + 2) \div 153
        d   == doy - (153 * mp + 2) \div 5 + 1
        m   == IF mp < 10 THEN mp + 3 ELSE mp - 9
        y   == yoe + era * 400 + (IF m <= 2 THEN 1 ELSE 0)
    IN  <<y, m, d>>

\* date.toISOString().slice(0, 10) of a valid time value
ToISODay(t) ==
    LET c == CivilFromDays(t)
    IN  c[1] * 10000 + c[2] * 100 + c[3]

\* A thrown exception in place of a day string
Throw == -1
\* The time value NaN of an Invalid Date (no day of the model is that early)
InvalidTime == -1000000

\* new Date(`${y}-${m}-${d}`).getTime() for a date-only text: UTC midnight of
\* that day, or NaN when the month or the day is out of range.  Node accepts a
\* day up to 31 in every month and carries the excess into the next month.
ParseISO(y, m, d) ==
    IF m \in 1..12 /\ d \in 1..31
    THEN DaysFromCivil(y, m, 1) + d - 1
    ELSE InvalidTime

\* new Date(value).toISOString().slice(0, 10): toISOString throws a RangeError
\* on an Invalid Date
ISOOrThrow(t) == IF t = InvalidTime THEN Throw ELSE ToISODay(t)

---------------------------------------------------------------------------
(* Values *)

\* a number
Num(n)       == [t |-> "number", n |-> n]
\* the string 'DD-MM-YYYY'
DMY(d, m, y) == [t |-> "dmy", y |-> y, m |-> m, d |-> d]
\* the string 'YYYY-MM-DD'
ISO(y, m, d) == [t |-> "iso", y |-> y, m |-> m, d |-> d]
\* a string s that is no date and no number
Str(s)       == [t |-> "text", s |-> s]
\* undefined: the value of a key the object does not have
Undefined    == [t |-> "undefined"]

\* !value is false
Truthy(v) ==
    /\ v.t # "undefined"
    /\ (v.t = "number" => v.n # 0)
    /\ (v.t = "text" => v.s # "")

\* new Date(value).getTime() for a string or undefined
ParseDate(v) ==
    IF v.t = "iso" THEN ParseISO(v.y, v.m, v.d) ELSE InvalidTime

\* src/server.js:60-71
ExtractDateOnly(v) ==
    IF ~Truthy(v) THEN 0
    ELSE IF v.t = "number"
    THEN LET excelEpoch == DaysFromCivil(1899, 12, 30)
         IN  ToISODay(excelEpoch + (v.n - 1))
    ELSE IF v.t = "dmy" THEN ISOOrThrow(ParseISO(v.y, v.m, v.d))
    ELSE ISOOrThrow(ParseDate(v))

---------------------------------------------------------------------------
(* Rows and sheets *)

\* row[col]
Get(row, col) == IF col \in DOMAIN row THEN row[col] ELSE Undefined

\* a || b
Or(a, b) == IF Truthy(a) THEN a ELSE b

\* row['Date'] || row['Transaction Date'] || row['Created At']
DateVal(row) == Or(Or(Get(row, "Date"), Get(row, "Transaction Date")), Get(row, "Created At"))

\* { ...row, DateOnly: extractDateOnly(dateVal) }
WithDateOnly(row) ==
    [c \in DOMAIN row \cup {"DateOnly"} |->
        IF c = "DateOnly" THEN ExtractDateOnly(DateVal(row)) ELSE row[c]]

\* rawData.map(...) throws when extractDateOnly throws on a row
MapThrows(rawData) ==
    \E i \in 1..Len(rawData) : ExtractDateOnly(DateVal(rawData[i])) = Throw

ProcessRows(rawData) == [i \in 1..Len(rawData) |-> WithDateOnly(rawData[i])]

\* the truthy merchant names of the rows, each once, in order of first appearance
RECURSIVE Merchants(_, _)
Merchants(data, i) ==
    IF i = 0 THEN <<>>
    ELSE LET before == Merchants(data, i - 1)
             name   == Get(data[i], "Merchant Name")
         IN  IF Truthy(name) /\ (\A j \in 1..Len(before) : before[j] # name.s)
             THEN Append(before, name.s)
             ELSE before

\* Rows an upload may carry: a serial date, an ISO text in the second date
\* column and no fee cell, no merchant cell and a DD-MM-YYYY text in the third
\* date column, and a text that is no date
AcmeSerial  == ("Merchant Name" :> Str("Acme") @@ "Withdrawal Amount" :> Num(100100)
                @@ "Withdrawal Fees" :> Num(5000) @@ "Date" :> Num(45294))
BetaISO     == ("Merchant Name" :> Str("Beta") @@ "Withdrawal Amount" :> Num(30040)
                @@ "Transaction Date" :> ISO(2024, 1, 3))
NoMerchant  == ("Withdrawal Amount" :> Num(7000) @@ "Withdrawal Fees" :> Num(100)
                @@ "Created At" :> DMY(2, 1, 2024))
BadDate     == ("Merchant Name" :> Str("Beta") @@ "Withdrawal Amount" :> Num(5000)
                @@ "Withdrawal Fees" :> Num(100) @@ "Date" :> Str("pending"))

RowPool == {AcmeSerial, BetaISO, NoMerchant, BadDate}

SeqsUpTo(S, n) == UNION {[1..k -> S] : k \in 0..n}

\* req.file: absent (no file part, or a MIME type the filter refuses), or the
\* rows of the first sheet of the workbook
NoFile == [present |-> FALSE, rows |-> <<>>]
Files  == {NoFile} \cup {[present |-> TRUE, rows |-> r] : r \in SeqsUpTo(RowPool, MaxRows)}

---------------------------------------------------------------------------
(* Numbers of the report *)

\* amounts are counted in 1/AmountScale, percents in 1/PercentScale of a percent
AmountScale  == 1000
PercentScale == 10
\* withdrawal * percent / 100 is counted in 1/ProductScale
ProductScale == AmountScale * PercentScale * 100

\* x.toFixed(2) of a number counted in 1/scale, as a count of hundredths:
\* the nearest hundredth, the larger in magnitude when two are equally near
ToFixed2(x, scale) ==
    LET u == scale \div 100
        a == IF x < 0 THEN -x ELSE x
        r == (a + u \div 2) \div u
    IN  IF x < 0 THEN -r ELSE r

\* the percent texts a request carries for a merchant: a numeral of its own,
\* or a text parseFloat turns into NaN
PercentTexts(merchant) == {IF merchant = "Acme" THEN "2.5" ELSE "10", "abc"}

\* isNaN(parseFloat(text))
IsNaNText(text) == text \notin {"2.5", "10"}

\* parseFloat(text) in tenths of a percent, for a numeral
ParseFloatPercent(text) == IF text = "2.5" THEN 25 ELSE 100

\* parseFloat(cell || 0) in thousandths, for a number cell or an absent one
ParseFloatAmount(cell) == IF Truthy(cell) THEN cell.n ELSE 0

---------------------------------------------------------------------------
(* The generate loop of src/server.js *)

InRangeStrictEnd(row, normalizedStart, normalizedEnd, merchant) ==
    /\ row["DateOnly"] >= normalizedStart
    /\ row["DateOnly"] < normalizedEnd
    /\ Get(row, "Merchant Name") = Str(merchant)

\* src/server.js:127-131  the filter predicate
InRange(row, normalizedStart, normalizedEnd, merchant) ==
    /\ row["DateOnly"] >= normalizedStart
    /\ row["DateOnly"] <= normalizedEnd
    /\ Get(row, "Merchant Name") = Str(merchant)

MatchingRows(data, normalizedStart, normalizedEnd, merchant) ==
    LET Match(row) == InRange(row, normalizedStart, normalizedEnd, merchant)
    IN  SelectSeq(data, Match)

\* src/server.js:137-152  the totals after the first i rows
RECURSIVE RowTotals(_, _, _)
RowTotals(rows, percent, i) ==
    IF i = 0 THEN [W |-> 0, F |-> 0, P |-> 0]
    ELSE LET t          == RowTotals(rows, percent, i - 1)
             withdrawal == ParseFloatAmount(Get(rows[i], "Withdrawal Amount"))
             fee        == ParseFloatAmount(Get(rows[i], "Withdrawal Fees"))
             percentAmount == withdrawal * percent
         IN  [W |-> t.W + withdrawal, F |-> t.F + fee, P |-> t.P + percentAmount]

\* src/server.js:146-151  the detail row of one transaction
DetailRow(row, merchant, percent) ==
    LET withdrawal == ParseFloatAmount(Get(row, "Withdrawal Amount"))
        fee        == ParseFloatAmount(Get(row, "Withdrawal Fees"))
        percentAmount == withdrawal * percent
    IN  [kind |-> "transaction", Merchant |-> merchant, W |-> withdrawal,
         F |-> fee, percent |-> percent, P |-> ToFixed2(percentAmount, ProductScale)]

\* a row of totals: its amounts are toFixed(2) texts
TotalsRow(kind, merchant, percent, t) ==
    [kind |-> kind, Merchant |-> merchant, W |-> ToFixed2(t.W, AmountScale),
     F |-> ToFixed2(t.F, AmountScale), percent |-> percent,
     P |-> ToFixed2(t.P, ProductScale)]

AddGrandOverwrite(acc, t) == [W |-> t.W, F |-> t.F, P |-> t.P]

\* src/server.js:161-163
AddGrand(acc, t) == [W |-> acc.W + t.W, F |-> acc.F + t.F, P |-> acc.P + t.P]

\* src/server.js:123-171  one pass of the loop body
MerchantStep(acc, data, normalizedStart, normalizedEnd, merchant, text) ==
    IF IsNaNText(text) THEN acc
    ELSE
      LET percent == ParseFloatPercent(text)
          rows    == MatchingRows(data, normalizedStart, normalizedEnd, merchant)
          t       == RowTotals(rows, percent, Len(rows))
      IN  IF Len(rows) = 0 THEN acc
          ELSE [filteredData |->
                    acc.filteredData
                    \o [i \in 1..Len(rows) |-> DetailRow(rows[i], merchant, percent)]
                    \o <<TotalsRow("subtotal", merchant, percent, t)>>,
                summaryData |->
                    Append(acc.summaryData, TotalsRow("merchant", merchant, percent, t)),
                grand |-> AddGrand(acc.grand, t)]

\* src/server.js:119-171  the loop over the keys of merchantPercents, in order
RECURSIVE MerchantLoop(_, _, _, _, _)
MerchantLoop(data, normalizedStart, normalizedEnd, merchantPercents, i) ==
    IF i = 0
    THEN [filteredData |-> <<>>, summaryData |-> <<>>, grand |-> [W |-> 0, F |-> 0, P |-> 0]]
    ELSE MerchantStep(
            MerchantLoop(data, normalizedStart, normalizedEnd, merchantPercents, i - 1),
            data, normalizedStart, normalizedEnd,
            merchantPercents[i][1], merchantPercents[i][2])

\* src/server.js:173-185  the two sheets of the workbook
Workbook(data, normalizedStart, normalizedEnd, merchantPercents) ==
    LET acc == MerchantLoop(data, normalizedStart, normalizedEnd, merchantPercents,
                            Len(merchantPercents))
    IN  [filteredData |-> Append(acc.filteredData, TotalsRow("grand", "GRAND TOTAL", 0, acc.grand)),
         summaryData  |-> Append(acc.summaryData, TotalsRow("grand", "TOTAL", 0, acc.grand))]

---------------------------------------------------------------------------
(* Requests and responses *)

\* the values of the query parameter `type` a request carries ("" when absent)
QueryTypes == {"Withdrawal", "Deposit"}

\* src/server.js:76, 111
PanelOf(type) == IF type = "Withdrawal" THEN "2" ELSE "1"

Panels == {"1", "2"}

MerchantKeys == {"Acme", "Beta"}

\* merchantPercents: the keys of the object in insertion order, each with its text
MerchantPercentMaps ==
    LET Entries == UNION {{<<k, text>> : text \in PercentTexts(k)} : k \in MerchantKeys}
    IN  {mp \in SeqsUpTo(Entries, Cardinality(MerchantKeys)) :
            \A i, j \in 1..Len(mp) : i # j => mp[i][1] # mp[j][1]}

\* startDate and endDate of a request body: a day text, or absent
RequestDates == {ISO(2024, 1, 2), ISO(2024, 1, 3), Undefined}
\* the pairs a request carries: an absent endDate fails as an absent startDate does
RequestRanges == {r \in RequestDates \X RequestDates : r[2] # Undefined}

NoBook == [filteredData |-> <<>>, summaryData |-> <<>>]

\* No request in hand
NoRes ==
    [op |-> "none", type |-> "", file |-> NoFile, merchantPercents |-> <<>>,
     startDate |-> Undefined, endDate |-> Undefined,
     status |-> 0, error |-> "", merchants |-> <<>>,
     wrote |-> FALSE, book |-> NoBook, saved |-> FALSE]

\* res.status(status).json({ error })
ErrorRes(req, status, error) == [req EXCEPT !.status = status, !.error = error]

---------------------------------------------------------------------------
(* POST /api/upload   src/server.js:74-105 *)

PutMerge(map, panelId, processedData) ==
    [map EXCEPT ![panelId] = @ \o processedData]

\* globalDataMap[panelId] = processedData   src/server.js:91
Put(map, panelId, processedData) == [map EXCEPT ![panelId] = processedData]

Upload(type, file, dbOk) ==
    LET req     == [NoRes EXCEPT !.op = "upload", !.type = type, !.file = file]
        panelId == PanelOf(type)
        rawData == file.rows
    IN
    /\ res = NoRes
    /\ IF ~file.present
       THEN /\ res' = ErrorRes(req, 400, "No file uploaded")
            /\ UNCHANGED globalDataMap
       ELSE IF Len(rawData) = 0
       THEN /\ res' = ErrorRes(req, 400, "Excel file is empty")
            /\ UNCHANGED globalDataMap
       ELSE IF MapThrows(rawData)
       THEN /\ res' = ErrorRes(req, 500, "Invalid time value")
            /\ UNCHANGED globalDataMap
       ELSE
         LET processedData == ProcessRows(rawData)
             merchants     == Merchants(processedData, Len(processedData))
         IN  /\ globalDataMap' = Put(globalDataMap, panelId, processedData)
             /\ IF dbOk
                THEN res' = [req EXCEPT !.status = 200, !.merchants = merchants,
                                        !.saved = TRUE]
                ELSE res' = ErrorRes(req, 500, "UploadedFile.create failed")

---------------------------------------------------------------------------
(* POST /api/generate   src/server.js:108-214 *)

\* new Date(text).toISOString().slice(0, 10)   src/server.js:116-117
Normalize(text) == ISOOrThrow(ParseDate(text))

Generate(type, merchantPercents, startDate, endDate, dbOk) ==
    LET req     == [NoRes EXCEPT !.op = "generate", !.type = type,
                                 !.merchantPercents = merchantPercents,
                                 !.startDate = startDate, !.endDate = endDate]
        panelId == PanelOf(type)
        data    == globalDataMap[panelId]
        normalizedStart == Normalize(startDate)
        normalizedEnd   == Normalize(endDate)
    IN
    /\ res = NoRes
    /\ UNCHANGED globalDataMap
    /\ IF Len(data) = 0
       THEN res' = ErrorRes(req, 400, "No data available")
       ELSE IF normalizedStart = Throw \/ normalizedEnd = Throw
       THEN res' = ErrorRes(req, 500, "Invalid time value")
       ELSE
         LET book == Workbook(data, normalizedStart, normalizedEnd, merchantPercents)
         IN  IF dbOk
             THEN res' = [req EXCEPT !.status = 200, !.wrote = TRUE, !.book = book,
                                     !.saved = TRUE]
             ELSE res' = [req EXCEPT !.status = 500, !.error = "Report.create failed",
                                     !.wrote = TRUE, !.book = book]

---------------------------------------------------------------------------
(* The Date Normalizer on its own *)

DateInputs ==
    {Num(n) : n \in 0..MaxSerial}
    \cup {Num(SerialBase + n) : n \in 0..MaxSerial}
    \cup {DMY(d, m, 2024) : d \in {5, 28, 29, 31}, m \in {2, 6, 12, 13}}
    \cup {ISO(2024, m, d) : d \in {5, 29}, m \in {2, 13}}
    \cup {Str("pending"), Str(""), Undefined}

Pending == -2

NormalizeDate ==
    /\ result = Pending
    /\ result' = ExtractDateOnly(value)
    /\ UNCHANGED <<globalDataMap, res, globalDataMapById, resById, globalData,
                   resSingle, value>>

---------------------------------------------------------------------------
(* POST /upload and POST /generate of src/models/UploadedFile.js:231-417,   *)
(* which select the panel by the query parameter `id`                       *)

\* the values of the query parameter `id` a request carries ("" when absent)
QueryIds == {"", "2", "3"}

\* req.query.id || '1'   src/models/UploadedFile.js:292, 321
PanelOfId(id) == IF id = "" THEN "1" ELSE id

\* globalDataMap[panelId] = processedData   src/models/UploadedFile.js:310
PutById(map, panelId, processedData) ==
    [p \in DOMAIN map \cup {panelId} |-> IF p = panelId THEN processedData ELSE map[p]]

\* src/models/UploadedFile.js:290-316
UploadById(id, file) ==
    LET req     == [NoRes EXCEPT !.op = "upload", !.type = id, !.file = file]
        panelId == PanelOfId(id)
        rawData == file.rows
    IN
    /\ resById = NoRes
    /\ IF ~file.present
       THEN /\ resById' = ErrorRes(req, 400, "No file uploaded")
            /\ UNCHANGED globalDataMapById
       ELSE IF Len(rawData) = 0
       THEN /\ resById' = ErrorRes(req, 400, "Excel file is empty")
            /\ UNCHANGED globalDataMapById
       ELSE IF MapThrows(rawData)
       THEN /\ resById' = ErrorRes(req, 500, "Invalid time value")
            /\ UNCHANGED globalDataMapById
       ELSE
         LET processedData == ProcessRows(rawData)
             merchants     == Merchants(processedData, Len(processedData))
         IN  /\ globalDataMapById' = PutById(globalDataMapById, panelId, processedData)
             /\ resById' = [req EXCEPT !.status = 200, !.merchants = merchants]

\* src/models/UploadedFile.js:318-413
GenerateById(id, merchantPercents, startDate, endDate) ==
    LET req     == [NoRes EXCEPT !.op = "generate", !.type = id,
                                 !.merchantPercents = merchantPercents,
                                 !.startDate = startDate, !.endDate = endDate]
        panelId == PanelOfId(id)
        normalizedStart == Normalize(startDate)
        normalizedEnd   == Normalize(endDate)
    IN
    /\ resById = NoRes
    /\ UNCHANGED globalDataMapById
    /\ IF panelId \notin DOMAIN globalDataMapById
       THEN \* data is undefined and data.length throws a TypeError
            resById' = ErrorRes(req, 500, "Cannot read properties of undefined")
       ELSE IF Len(globalDataMapById[panelId]) = 0
       THEN resById' = ErrorRes(req, 400, "No data available")
       ELSE IF normalizedStart = Throw \/ normalizedEnd = Throw
       THEN resById' = ErrorRes(req, 500, "Invalid time value")
       ELSE
         LET book == Workbook(globalDataMapById[panelId], normalizedStart,
                              normalizedEnd, merchantPercents)
         IN  resById' = [req EXCEPT !.status = 200, !.wrote = TRUE, !.book = book]

---------------------------------------------------------------------------
(* POST /upload and POST /generate of src/models/UploadedFile.js:14-225,    *)
(* which keep one dataset and know no panels                                *)

\* src/models/UploadedFile.js:67-80
ExtractDateOnlyGuarded(v) ==
    IF ~Truthy(v) THEN 0
    ELSE IF v.t = "number"
    THEN LET excelEpoch == DaysFromCivil(1899, 12, 30)
         IN  ToISODay(excelEpoch + (v.n - 1))
    ELSE IF v.t = "dmy"
    THEN LET date == ParseISO(v.y, v.m, v.d)
         IN  IF date = InvalidTime THEN 0 ELSE ToISODay(date)
    ELSE LET parsed == ParseDate(v)
         IN  IF parsed = InvalidTime THEN 0 ELSE ToISODay(parsed)

\* src/models/UploadedFile.js:93-98  the columns the first row lacks
MissingOfFirstRow(firstRow) ==
    ({"Merchant Name", "Withdrawal Amount", "Withdrawal Fees"} \ DOMAIN firstRow)
    \cup (IF DOMAIN firstRow \cap {"Date", "Transaction Date", "Created At"} = {}
          THEN {"Date or Transaction Date or Created At"} ELSE {})

\* src/models/UploadedFile.js:106-112
ProcessRowsSingle(rawData) ==
    [i \in 1..Len(rawData) |->
        [c \in DOMAIN rawData[i] \cup {"DateOnly"} |->
            IF c = "DateOnly" THEN ExtractDateOnlyGuarded(DateVal(rawData[i]))
            ELSE rawData[i][c]]]

\* No request in hand
NoResSingle ==
    [op |-> "none", file |-> NoFile, merchantPercents |-> <<>>,
     startDate |-> Undefined, endDate |-> Undefined,
     status |-> 0, error |-> "", missing |-> {}, count |-> 0,
     wrote |-> FALSE, book |-> NoBook, summary |-> <<>>]

\* src/models/UploadedFile.js:83-120
UploadSingle(file) ==
    LET req     == [NoResSingle EXCEPT !.op = "upload", !.file = file]
        rawData == file.rows
    IN
    /\ resSingle = NoResSingle
    /\ IF ~file.present
       THEN /\ resSingle' = ErrorRes(req, 400, "No file uploaded")
            /\ UNCHANGED globalData
       ELSE IF Len(rawData) = 0
       THEN /\ resSingle' = ErrorRes(req, 400, "Excel file is empty")
            /\ UNCHANGED globalData
       ELSE IF MissingOfFirstRow(rawData[1]) # {}
       THEN /\ resSingle' = [req EXCEPT !.status = 400, !.error = "Missing columns",
                                        !.missing = MissingOfFirstRow(rawData[1])]
            /\ UNCHANGED globalData
       ELSE /\ globalData' = ProcessRowsSingle(rawData)
            /\ resSingle' = [req EXCEPT !.status = 200, !.count = Len(rawData)]

\* the column `${percent}% Amount`
PercentColumn(percent) == IF percent = 25 THEN "2.5% Amount" ELSE "10% Amount"

\* row[`${percent}% Amount`] = percentAmount   src/models/UploadedFile.js:161
\* (the amount is counted in 1/ProductScale)
WithPercentAmount(row, percent) ==
    LET percentAmount == ParseFloatAmount(Get(row, "Withdrawal Amount")) * percent
    IN  [c \in DOMAIN row \cup {PercentColumn(percent)} |->
            IF c = PercentColumn(percent) THEN Num(percentAmount) ELSE row[c]]

\* a row of the Summary sheet: its amounts are numbers
RawTotalsRow(merchant, percent, t) ==
    [kind |-> "merchant", Merchant |-> merchant, W |-> t.W, F |-> t.F,
     percent |-> percent, P |-> t.P]

\* src/models/UploadedFile.js:147-179  one pass of the loop body; the rows of
\* dateFiltered are the objects of globalData, so that the assignment at line
\* 161 changes the stored rows
MerchantStepSingle(acc, normalizedStart, normalizedEnd, merchant, text) ==
    IF IsNaNText(text) THEN acc
    ELSE
      LET percent == ParseFloatPercent(text)
          picked  == {i \in 1..Len(acc.data) :
                        InRange(acc.data[i], normalizedStart, normalizedEnd, merchant)}
          Picked(row) == InRange(row, normalizedStart, normalizedEnd, merchant)
          rows    == SelectSeq(acc.data, Picked)
          t       == RowTotals(rows, percent, Len(rows))
      IN  IF picked = {} THEN acc
          ELSE [data |-> [i \in 1..Len(acc.data) |->
                            IF i \in picked THEN WithPercentAmount(acc.data[i], percent)
                            ELSE acc.data[i]],
                filteredData |->
                    acc.filteredData
                    \o [i \in 1..Len(rows) |-> WithPercentAmount(rows[i], percent)],
                summaryData |-> Append(acc.summaryData, RawTotalsRow(merchant, percent, t)),
                grand |-> AddGrand(acc.grand, t)]

\* src/models/UploadedFile.js:143-179
RECURSIVE MerchantLoopSingle(_, _, _, _, _)
MerchantLoopSingle(data, normalizedStart, normalizedEnd, merchantPercents, i) ==
    IF i = 0
    THEN [data |-> data, filteredData |-> <<>>, summaryData |-> <<>>,
          grand |-> [W |-> 0, F |-> 0, P |-> 0]]
    ELSE MerchantStepSingle(
            MerchantLoopSingle(data, normalizedStart, normalizedEnd, merchantPercents, i - 1),
            normalizedStart, normalizedEnd,
            merchantPercents[i][1], merchantPercents[i][2])

\* src/models/UploadedFile.js:200-208  every number of a summary row toFixed(2)
FormattedSummary(summaryData) ==
    [j \in 1..Len(summaryData) |->
        [summaryData[j] EXCEPT !.W = ToFixed2(@, AmountScale),
                               !.F = ToFixed2(@, AmountScale),
                               !.P = ToFixed2(@, ProductScale)]]

\* src/models/UploadedFile.js:123-220  (merchantPercents is always an object
\* here, so of the three filters only the dates can be missing)
GenerateSingle(merchantPercents, startDate, endDate) ==
    LET req == [NoResSingle EXCEPT !.op = "generate",
                                   !.merchantPercents = merchantPercents,
                                   !.startDate = startDate, !.endDate = endDate]
        normalizedStart == Normalize(startDate)
        normalizedEnd   == Normalize(endDate)
    IN
    /\ resSingle = NoResSingle
    /\ IF ~Truthy(startDate) \/ ~Truthy(endDate)
       THEN /\ resSingle' = ErrorRes(req, 400, "Missing filters")
            /\ UNCHANGED globalData
       ELSE IF normalizedStart = Throw \/ normalizedEnd = Throw
       THEN /\ resSingle' = ErrorRes(req, 500, "Invalid time value")
            /\ UNCHANGED globalData
       ELSE IF normalizedStart > normalizedEnd
       THEN /\ resSingle' = ErrorRes(req, 400, "Start date after end date")
            /\ UNCHANGED globalData
       ELSE IF \A i \in 1..Len(globalData) :
                  ~(/\ globalData[i]["DateOnly"] >= normalizedStart
                    /\ globalData[i]["DateOnly"] <= normalizedEnd)
       THEN /\ resSingle' = ErrorRes(req, 404, "No data in date range")
            /\ UNCHANGED globalData
       ELSE
         LET acc == MerchantLoopSingle(globalData, normalizedStart, normalizedEnd,
                                       merchantPercents, Len(merchantPercents))
             summaryData == Append(acc.summaryData,
                                   [kind |-> "grand", Merchant |-> "TOTAL",
                                    W |-> acc.grand.W, F |-> acc.grand.F,
                                    percent |-> 0, P |-> acc.grand.P])
         IN  IF Len(acc.summaryData) = 0
             THEN /\ resSingle' = ErrorRes(req, 404, "No matching merchant data")
                  /\ UNCHANGED globalData
             ELSE /\ globalData' = acc.data
                  /\ resSingle' =
                        [req EXCEPT !.status = 200, !.wrote = TRUE,
                                    !.book = [filteredData |-> acc.filteredData,
                                              summaryData |-> summaryData],
                                    !.summary = FormattedSummary(summaryData)]

---------------------------------------------------------------------------
(* Specifications *)

Init ==
    /\ globalDataMap = [p \in Panels |-> <<>>]
    /\ res = NoRes
    /\ globalDataMapById = [p \in Panels |-> <<>>]
    /\ resById = NoRes
    /\ globalData = <<>>
    /\ resSingle = NoResSingle
    /\ value = Undefined
    /\ result = Pending

UploadStep ==
    \E type \in QueryTypes, file \in Files, dbOk \in BOOLEAN :
        /\ Upload(type, file, dbOk)
        /\ UNCHANGED <<globalDataMapById, resById, globalData, resSingle, value, result>>

GenerateStep ==
    \E type \in QueryTypes, merchantPercents \in MerchantPercentMaps,
       range \in RequestRanges, dbOk \in BOOLEAN :
        /\ Generate(type, merchantPercents, range[1], range[2], dbOk)
        /\ UNCHANGED <<globalDataMapById, resById, globalData, resSingle, value, result>>

\* the response leaves and the request is over
Respond ==
    /\ res # NoRes
    /\ res' = NoRes
    /\ UNCHANGED <<globalDataMap, globalDataMapById, resById, globalData, resSingle,
                   value, result>>

Next == UploadStep \/ GenerateStep \/ Respond

\* src/server.js
Spec == Init /\ [][Next]_vars

UploadByIdStep ==
    \E id \in QueryIds, file \in Files :
        /\ UploadById(id, file)
        /\ UNCHANGED <<globalDataMap, res, globalData, resSingle, value, result>>

GenerateByIdStep ==
    \E id \in QueryIds, merchantPercents \in MerchantPercentMaps,
       range \in RequestRanges :
        /\ GenerateById(id, merchantPercents, range[1], range[2])
        /\ UNCHANGED <<globalDataMap, res, globalData, resSingle, value, result>>

RespondById ==
    /\ resById # NoRes
    /\ resById' = NoRes
    /\ UNCHANGED <<globalDataMap, res, globalDataMapById, globalData, resSingle,
                   value, result>>

NextById == UploadByIdStep \/ GenerateByIdStep \/ RespondById

\* src/models/UploadedFile.js:231-417
SpecById == Init /\ [][NextById]_vars

UploadSingleStep ==
    \E file \in Files :
        /\ UploadSingle(file)
        /\ UNCHANGED <<globalDataMap, res, globalDataMapById, resById, value, result>>

GenerateSingleStep ==
    \E merchantPercents \in MerchantPercentMaps, startDate \in RequestDates,
       endDate \in RequestDates :
        /\ GenerateSingle(merchantPercents, startDate, endDate)
        /\ UNCHANGED <<globalDataMap, res, globalDataMapById, resById, value, result>>

RespondSingle ==
    /\ resSingle # NoResSingle
    /\ resSingle' = NoResSingle
    /\ UNCHANGED <<globalDataMap, res, globalDataMapById, resById, globalData,
                   value, result>>

NextSingle == UploadSingleStep \/ GenerateSingleStep \/ RespondSingle

\* src/models/UploadedFile.js:14-225
SpecSingle == Init /\ [][NextSingle]_vars

InitDate ==
    /\ globalDataMap = [p \in Panels |-> <<>>]
    /\ res = NoRes
    /\ globalDataMapById = [p \in Panels |-> <<>>]
    /\ resById = NoRes
    /\ globalData = <<>>
    /\ resSingle = NoResSingle
    /\ value \in DateInputs
    /\ result = Pending

NextDate == NormalizeDate

\* extractDateOnly on its own
SpecDate == InitDate /\ [][NextDate]_vars

---------------------------------------------------------------------------
(* What the claims speak of, stated from the request and the store alone *)

\* a generate request is in hand, and its two dates are day texts
Generated == res.op = "generate"
DatesValid == Normalize(res.startDate) # Throw /\ Normalize(res.endDate) # Throw

\* the dataset of the panel the request in hand selects
PanelData == globalDataMap[IF res.type = "Withdrawal" THEN "2" ELSE "1"]

\* the stored row's day lies in the requested range, both ends included
DayInRange(row) ==
    /\ row["DateOnly"] >= Normalize(res.startDate)
    /\ row["DateOnly"] <= Normalize(res.endDate)

\* the stored rows of the panel that a merchant key of the request selects
RowsOfKey(merchant) ==
    {i \in 1..Len(PanelData) :
        /\ DayInRange(PanelData[i])
        /\ "Merchant Name" \in DOMAIN PanelData[i]
        /\ PanelData[i]["Merchant Name"] = Str(merchant)}

\* the entries of the request whose percent is a number and that select a row
ProducingEntries ==
    {k \in 1..Len(res.merchantPercents) :
        /\ res.merchantPercents[k][2] \in {"2.5", "10"}
        /\ RowsOfKey(res.merchantPercents[k][1]) # {}}

\* the handler rejected the request as invalid: a 4xx answer, nothing written
\* to the output directory, no record created
Rejected == res.status \in {400, 404} /\ ~res.wrote /\ ~res.saved

---------------------------------------------------------------------------
(* C1 - C3: rejections of generate *)

\* C1: a generate request whose normalized startDate is greater than its
\* normalized endDate is rejected as invalid, no report artifact is written
\* and no report record is persisted, whatever the Dataset Store holds.
C1_InvalidDateRangeRejected ==
    (Generated /\ DatesValid /\ Normalize(res.startDate) > Normalize(res.endDate))
        => Rejected

\* C2: when no merchant key of merchantPercents produces output, generate is
\* rejected; it writes no artifact and sends no success response whose summary
\* holds the grand-total row alone.
C2_NoMatchingMerchantDataRejected ==
    (Generated /\ DatesValid /\ ProducingEntries = {})
        => /\ Rejected
           /\ ~(res.status = 200 /\ Len(res.book.summaryData) = 1)

\* C3: when the panel's dataset is not empty and none of its rows has a
\* DateOnly in [startDate, endDate], generate is rejected before any report
\* artifact is written.
C3_NoDataInRangeRejected ==
    (/\ Generated /\ DatesValid
     /\ Len(PanelData) > 0
     /\ \A i \in 1..Len(PanelData) : ~DayInRange(PanelData[i]))
        => Rejected

---------------------------------------------------------------------------
(* C4 - C5: the report of a successful generate *)

Successful == Generated /\ res.status = 200

\* the sum of the values of a function with a finite domain
RECURSIVE SumFn(_)
SumFn(f) ==
    IF DOMAIN f = {} THEN 0
    ELSE LET x == CHOOSE x \in DOMAIN f : TRUE
         IN  f[x] + SumFn([y \in DOMAIN f \ {x} |-> f[y]])

\* the number in a cell of a stored row, 0 when the row has no such cell
Amount(row, col) == IF col \in DOMAIN row THEN row[col].n ELSE 0

\* the percent of entry k of the request, in tenths of a percent
PercentOfEntry(k) == IF res.merchantPercents[k][2] = "2.5" THEN 25 ELSE 100

\* a merchant's totals, from the stored rows its key selects
TotalOfKey(k, col) ==
    SumFn([i \in RowsOfKey(res.merchantPercents[k][1]) |-> Amount(PanelData[i], col)])

\* the rows of the Summary sheet before its last row, and the last row
SummaryRows  == 1..(Len(res.book.summaryData) - 1)
GrandRow     == res.book.summaryData[Len(res.book.summaryData)]

\* the entries of the request that have a row in the Summary sheet
EntriesWithSummaryRow ==
    {k \in 1..Len(res.merchantPercents) :
        \E j \in SummaryRows :
            res.book.summaryData[j].Merchant = res.merchantPercents[k][1]}

\* C4: in a successful generate the grand-total row shows the sum, over
\* exactly the merchants that have a summary row, of the merchant's total
\* withdrawal, fees and percent-amount; a merchant skipped for a non-numeric
\* percent or for want of matching rows has no summary row and adds nothing.
C4_GrandTotalIsSumOfMerchantTotals ==
    Successful =>
        /\ EntriesWithSummaryRow = ProducingEntries
        /\ Len(res.book.summaryData) = Cardinality(ProducingEntries) + 1
        /\ GrandRow.Merchant = "TOTAL"
        /\ GrandRow.W = ToFixed2(SumFn([k \in EntriesWithSummaryRow |->
                            TotalOfKey(k, "Withdrawal Amount")]), AmountScale)
        /\ GrandRow.F = ToFixed2(SumFn([k \in EntriesWithSummaryRow |->
                            TotalOfKey(k, "Withdrawal Fees")]), AmountScale)
        /\ GrandRow.P = ToFixed2(SumFn([k \in EntriesWithSummaryRow |->
                            TotalOfKey(k, "Withdrawal Amount") * PercentOfEntry(k)]),
                            ProductScale)

\* C4 happens: two merchants have a summary row and the grand total shown is
\* the rounded sum of their unrounded totals (the percent-amounts shown for
\* the two merchants add up to one hundredth less)
C4_Witness ==
    /\ Successful
    /\ Cardinality(EntriesWithSummaryRow) = 2
    /\ GrandRow.P > 0
    /\ GrandRow.P # SumFn([j \in SummaryRows |-> res.book.summaryData[j].P])

\* the transaction rows of the Detailed Data sheet
TxPositions ==
    {j \in 1..Len(res.book.filteredData) :
        res.book.filteredData[j].kind = "transaction"}

\* a stored row paired with the entry of the request whose key is its merchant
\* and whose percent is a number, the row's day being in the requested range
SelectedPairs ==
    {p \in (1..Len(PanelData)) \X (1..Len(res.merchantPercents)) :
        /\ res.merchantPercents[p[2]][2] \in {"2.5", "10"}
        /\ p[1] \in RowsOfKey(res.merchantPercents[p[2]][1])}

\* the detail row the claim asks for a selected stored row
DetailOfPair(p) ==
    LET row == PanelData[p[1]]
    IN  [kind |-> "transaction", Merchant |-> res.merchantPercents[p[2]][1],
         W |-> Amount(row, "Withdrawal Amount"), F |-> Amount(row, "Withdrawal Fees"),
         percent |-> PercentOfEntry(p[2]),
         P |-> ToFixed2(Amount(row, "Withdrawal Amount") * PercentOfEntry(p[2]),
                        ProductScale)]

\* C5: in a successful generate the transaction rows of the detail sheet
\* correspond one to one with the stored rows of the panel whose DateOnly lies
\* in [startDate, endDate], both ends included, and whose Merchant Name equals
\* a requested key with a numeric percent: each such row appears exactly once,
\* with the percent amount withdrawal * percent / 100 to two decimals, and no
\* other stored row appears.
C5_DetailRowsMatchStoredRows ==
    Successful =>
        /\ Cardinality(TxPositions) = Cardinality(SelectedPairs)
        /\ \A p \in SelectedPairs :
              Cardinality({j \in TxPositions :
                              res.book.filteredData[j] = DetailOfPair(p)})
              = Cardinality({q \in SelectedPairs : DetailOfPair(q) = DetailOfPair(p)})
        /\ \A j \in TxPositions :
              \E p \in SelectedPairs : res.book.filteredData[j] = DetailOfPair(p)

\* C5 happens: a row on the day of endDate is shown, while the panel also holds
\* a requested merchant's row one day before startDate
C5_Witness ==
    /\ Successful
    /\ \E p \in SelectedPairs : PanelData[p[1]]["DateOnly"] = Normalize(res.endDate)
    /\ \E i \in 1..Len(PanelData), k \in 1..Len(res.merchantPercents) :
          /\ Get(PanelData[i], "Merchant Name") = Str(res.merchantPercents[k][1])
          /\ res.merchantPercents[k][2] \in {"2.5", "10"}
          /\ PanelData[i]["DateOnly"] = Normalize(res.startDate) - 1

---------------------------------------------------------------------------
(* C6 - C7: uploads and the Dataset Store *)

\* a step in which src/server.js handles an upload
UploadHandled == res.op = "none" /\ res'.op = "upload"

\* the panel the upload selects
UploadPanel == IF res'.type = "Withdrawal" THEN "2" ELSE "1"

\* stored holds exactly the rows of the sheet, in order, each with the day of
\* its date cell added as DateOnly
RowsAsUploaded(stored, rawData) ==
    /\ Len(stored) = Len(rawData)
    /\ \A i \in 1..Len(rawData) :
          /\ DOMAIN stored[i] = DOMAIN rawData[i] \cup {"DateOnly"}
          /\ \A c \in DOMAIN rawData[i] : stored[i][c] = rawData[i][c]
          /\ stored[i]["DateOnly"] = ExtractDateOnly(DateVal(rawData[i]))

\* the panel of the upload now holds the rows of the upload and nothing else,
\* and the other panel holds what it held
ReplacedByUpload ==
    /\ RowsAsUploaded(globalDataMap'[UploadPanel], res'.file.rows)
    /\ \A p \in Panels \ {UploadPanel} : globalDataMap'[p] = globalDataMap[p]

\* the upload carried a file whose sheet is not empty and whose date cells all
\* convert, so that the handler went on to the store
UploadPassedChecks ==
    /\ res'.file.present
    /\ Len(res'.file.rows) > 0
    /\ \A i \in 1..Len(res'.file.rows) :
          ExtractDateOnly(DateVal(res'.file.rows[i])) # Throw

\* C6 as claimed: the dataset of a panel is exactly the rows of the most recent
\* successful upload to it: a successful upload replaces the panel's dataset
\* and leaves the other panel alone, and no other step changes the store.
C6_LastSuccessfulUploadHeld ==
    [][IF UploadHandled /\ res'.status = 200
       THEN ReplacedByUpload
       ELSE globalDataMap' = globalDataMap]_vars

\* C6 as amended: the dataset of a panel is exactly the rows of the most
\* recent upload to it that passed the handler's checks, whether or not the
\* upload was then recorded in the database and answered with success; such an
\* upload replaces the panel's dataset (no merge) and leaves the other panel
\* alone, and no other step changes the store.
C6_LastAcceptedUploadHeld ==
    [][IF UploadHandled /\ UploadPassedChecks
       THEN ReplacedByUpload
       ELSE globalDataMap' = globalDataMap]_vars

\* C6 happens: an upload to a panel is in hand, the panel holds its rows, the
\* other panel holds an earlier upload, and the upload was not recorded
C6_Witness ==
    /\ res.op = "upload"
    /\ res.status = 500
    /\ res.error = "UploadedFile.create failed"
    /\ RowsAsUploaded(globalDataMap[IF res.type = "Withdrawal" THEN "2" ELSE "1"],
                      res.file.rows)
    /\ Len(res.file.rows) = 1
    /\ Len(globalDataMap[IF res.type = "Withdrawal" THEN "1" ELSE "2"]) = 2

\* the columns a sheet must have and has not: a column is in the sheet when a
\* row has a cell in it
SheetColumns(rawData) == UNION {DOMAIN rawData[i] : i \in 1..Len(rawData)}
MissingColumns(rawData) ==
    ({"Merchant Name", "Withdrawal Amount", "Withdrawal Fees"} \ SheetColumns(rawData))
    \cup (IF SheetColumns(rawData) \cap {"Date", "Transaction Date", "Created At"} = {}
          THEN {"Date or Transaction Date or Created At"} ELSE {})

\* C7: an upload whose sheet lacks a required column or every date column is
\* rejected with a validation error and the panel's dataset is left as it was;
\* the same holds for an upload without a file and for an empty sheet.
C7_InvalidUploadRejected ==
    [][(/\ UploadHandled
        /\ \/ ~res'.file.present
           \/ Len(res'.file.rows) = 0
           \/ MissingColumns(res'.file.rows) # {})
       => (res'.status = 400 /\ globalDataMap' = globalDataMap)]_vars

---------------------------------------------------------------------------
(* C8 - C9: the Date Normalizer *)

\* a string that is no date
Unparseable(v) ==
    \/ v.t = "text" /\ v.s # ""
    \/ v.t \in {"dmy", "iso"} /\ v.m \notin 1..12

\* C8: extractDateOnly returns a value for every input and never throws, and
\* for a string that cannot be parsed as a date it returns the empty string.
C8_NormalizerTotal ==
    result # Pending =>
        /\ result # Throw
        /\ (Unparseable(value) => result = 0)

\* the day number of a day string
DayNumber(day) == DaysFromCivil(day \div 10000, (day \div 100) % 100, day % 100)

\* C9: for a numeric input n (n >= 1) extractDateOnly returns the day that
\* lies n days after 1899-12-30, so that serial 1 is 1899-12-31.
C9_SerialIsDaysAfterEpoch ==
    (result # Pending /\ value.t = "number" /\ value.n >= 1)
        => DayNumber(result) - DaysFromCivil(1899, 12, 30) = value.n

---------------------------------------------------------------------------
(* C10: generate on a panel without data *)

\* C10: a generate request for a panel that holds no dataset, absent or empty,
\* is answered with the validation error 'No data available' and writes no
\* artifact, whatever panel selector the request carries.
C10_NoDataAvailable ==
    (/\ resById.op = "generate"
     /\ LET panelId == IF resById.type = "" THEN "1" ELSE resById.type
        IN  \/ panelId \notin DOMAIN globalDataMapById
            \/ globalDataMapById[panelId] = <<>>)
        => /\ resById.status = 400
           /\ resById.error = "No data available"
           /\ ~resById.wrote

\* C11: a generate request, successful or failed, leaves the Dataset Store
\* unchanged: no stored row gains, loses or changes a field (in particular
\* no percent-amount column is added to a stored row).  Stated of the
\* handlers that keep one dataset: every step that handles a generate
\* request leaves globalData as it was.
C11_GenerateLeavesStoreUnchanged ==
    [][(resSingle = NoResSingle /\ resSingle'.op = "generate")
          => globalData' = globalData]_vars

===========================================================================
